---- MODULE Spec2Model ----
(***************************************************************************)
(* A model of HttpServer (src/http_server.py): the pure helpers            *)
(* make_response, get_path, get_mimetype, the content resolver get_content *)
(* taken one file-system call at a time, and the accept loop of serve().   *)
(*                                                                         *)
(* Byte strings and text strings are sequences of one-character strings.   *)
(* A byte outside ASCII is written "xC3", "xA9"; the character U+00E9 that *)
(* the two bytes encode is written "U+00E9".                               *)
(***************************************************************************)
EXTENDS Integers, Sequences, FiniteSets, TLC

VARIABLES
    pc,          \* where serve() is: "accept", a step of the handler, "returned"
    sockOpen,    \* the listening socket is open
    conns,       \* the accepted connections in acceptance order: "open" / "closed"
    inflight,    \* bytes of the current client's stream not yet read by recv
    received,    \* bytes recv has returned on the current connection
    emptyReads,  \* recv calls of the current connection that returned b''
    request,     \* local `request` of serve()
    path,        \* local `path`
    body,        \* local `body`
    mimetype,    \* local `mimetype`
    response,    \* local `response`
    exc,         \* the exception caught by the handler's bare except, or "none"
    outerExc,    \* the exception caught by an outer except clause, or "none"
    failedBefore,\* the bare except has caught something other than KeyboardInterrupt
    sent,        \* bytes written on the current connection, until it is closed
    fs,          \* the file system: location -> kind
    fsSeen,      \* the file system as it was at get_content's os.path.exists
    fsStable,    \* no file-system change since that os.path.exists
    call,        \* a helper called on its own: its name and arguments
    result       \* what that call returned, or Unbound

vars == <<pc, sockOpen, conns, inflight, received, emptyReads, request, path, body,
          mimetype, response, exc, outerExc, failedBefore, sent,
          fs, fsSeen, fsStable, call, result>>

-----------------------------------------------------------------------------
(* Bounds of the model *)

MaxConns == 2
MaxEmptyReads == 2
MaxPartialSend == 2

(* recv(1024) *)
RecvSize == 1024

-----------------------------------------------------------------------------
(* Literals of the source *)

CRLF == <<"\r", "\n">>
HeaderTerminator == <<"\r", "\n", "\r", "\n">>
HttpVersion == <<"H", "T", "T", "P", "/", "1", ".", "1", " ">>
ContentTypeHeader ==
    <<"C", "o", "n", "t", "e", "n", "t", "-", "T", "y", "p", "e", ":", " ">>
Code200 == <<"2", "0", "0">>
ReasonOK == <<"O", "K">>
Code404 == <<"4", "0", "4">>
ReasonNotFound == <<"N", "O", "T", " ", "F", "O", "U", "N", "D">>
NotFoundBody ==
    <<"C", "o", "u", "l", "d", "n", "'", "t", " ", "f", "i", "n", "d", " ",
      "t", "h", "e", " ", "f", "i", "l", "e", " ", "y", "o", "u", " ",
      "r", "e", "q", "u", "e", "s", "t", "e", "d", ".">>
TextPlain == <<"t", "e", "x", "t", "/", "p", "l", "a", "i", "n">>
TextHtml == <<"t", "e", "x", "t", "/", "h", "t", "m", "l">>
ImagePng == <<"i", "m", "a", "g", "e", "/", "p", "n", "g">>
NoneLabel == <<"N", "o", "n", "e">>
WebRoot == <<"w", "e", "b", "r", "o", "o", "t", "/">>
AnchorOpen == <<"<", "a", " ", "h", "r", "e", "f", "=">>
AnchorMid == <<">">>
AnchorClose == <<"<", "b", "r", ">", "<", "/", "a", ">", "\n">>

-----------------------------------------------------------------------------
(* Python values of the handler's locals *)

PyBytes(v) == [t |-> "bytes", v |-> v]
PyStr(v) == [t |-> "str", v |-> v]
PyNone == [t |-> "None"]
Unbound == [t |-> "unbound"]

-----------------------------------------------------------------------------
(* Sequence helpers *)

Min(a, b) == IF a < b THEN a ELSE b

Take(s, n) == SubSeq(s, 1, n)

Drop(s, n) == SubSeq(s, n + 1, Len(s))

IsPrefix(p, s) == Len(p) <= Len(s) /\ Take(s, Len(p)) = p

(* `sub in s` for strings *)
Contains(s, sub) ==
    \E i \in 1..(Len(s) - Len(sub) + 1) : SubSeq(s, i, i + Len(sub) - 1) = sub

(* s.endswith(c) for a one-character c *)
EndsWith(s, c) == Len(s) > 0 /\ s[Len(s)] = c

(* sep.join(parts) *)
RECURSIVE Join(_, _)
Join(sep, parts) ==
    IF Len(parts) = 0 THEN <<>>
    ELSE IF Len(parts) = 1 THEN parts[1]
    ELSE CHOOSE r \in {parts[1] \o sep \o Join(sep, rest) :
                          rest \in {Tail(parts)}} : TRUE

(* The sequences that list every element of the set S once *)
Orderings(S) ==
    {f \in [1..Cardinality(S) -> S] : \A i, j \in 1..Cardinality(S) : f[i] = f[j] => i = j}

-----------------------------------------------------------------------------
(* bytes.decode('utf8') and str.encode('utf8') *)

ByteC3 == "xC3"
ByteA9 == "xA9"
CharE9 == "U+00E9"

(* data.decode('utf8'): [ok, text]; not ok is UnicodeDecodeError *)
RECURSIVE Utf8Decode(_)
Utf8Decode(bs) ==
    IF Len(bs) = 0 THEN [ok |-> TRUE, text |-> <<>>]
    ELSE IF bs[1] = ByteC3
    THEN IF Len(bs) >= 2 /\ bs[2] = ByteA9
         THEN LET rest == Utf8Decode(Drop(bs, 2))
              IN  [ok |-> rest.ok, text |-> <<CharE9>> \o rest.text]
         ELSE [ok |-> FALSE, text |-> <<>>]
    ELSE IF bs[1] = ByteA9
    THEN [ok |-> FALSE, text |-> <<>>]
    ELSE LET rest == Utf8Decode(Tail(bs))
         IN  [ok |-> rest.ok, text |-> <<bs[1]>> \o rest.text]

(* text.encode("utf8") *)
RECURSIVE Utf8Encode(_)
Utf8Encode(text) ==
    IF Len(text) = 0 THEN <<>>
    ELSE CHOOSE r \in
             {(IF text[1] = CharE9 THEN <<ByteC3, ByteA9>> ELSE <<text[1]>>)
                  \o Utf8Encode(rest) : rest \in {Tail(text)}} : TRUE

-----------------------------------------------------------------------------
(* make_response *)

make_response_no_blank(code, reason, body_, mimetype_) ==
    IF body_.t # "bytes" \/ mimetype_.t # "bytes"
    THEN [t |-> "TypeError"]
    ELSE PyBytes(Join(CRLF, << HttpVersion \o code \o <<" ">> \o reason,
                               ContentTypeHeader \o mimetype_.v,
                               body_.v >>))

make_response_trailing_crlf(code, reason, body_, mimetype_) ==
    IF body_.t # "bytes" \/ mimetype_.t # "bytes"
    THEN [t |-> "TypeError"]
    ELSE PyBytes(Join(CRLF, << HttpVersion \o code \o <<" ">> \o reason,
                               ContentTypeHeader \o mimetype_.v,
                               <<>>,
                               body_.v,
                               <<>> >>))

(* b"\r\n".join([...]) of the status line, the Content-Type line, b"" and *)
(* the body; join raises TypeError on an item that is not bytes            *)
make_response(code, reason, body_, mimetype_) ==
    IF body_.t # "bytes" \/ mimetype_.t # "bytes"
    THEN [t |-> "TypeError"]
    ELSE PyBytes(Join(CRLF, << HttpVersion \o code \o <<" ">> \o reason,
                               ContentTypeHeader \o mimetype_.v,
                               <<>>,
                               body_.v >>))

-----------------------------------------------------------------------------
(* get_path *)

Whitespace == {" ", "\t", "\n", "\r"}

(* The length of the longest prefix of s free of whitespace *)
TokenLen(s) ==
    IF \E i \in 1..Len(s) : s[i] \in Whitespace
    THEN (CHOOSE i \in 1..Len(s) :
              s[i] \in Whitespace /\ \A j \in 1..(i - 1) : s[j] \notin Whitespace)
         - 1
    ELSE Len(s)

(* str.split() without arguments: the maximal runs of non-whitespace.  The *)
(* rest of s is bound to its value before it is split in turn.             *)
RECURSIVE Split(_)
Split(s) ==
    IF Len(s) = 0 THEN <<>>
    ELSE IF s[1] \in Whitespace
    THEN CHOOSE r \in {Split(rest) : rest \in {Tail(s)}} : TRUE
    ELSE CHOOSE r \in {<<Take(s, TokenLen(s))>> \o Split(rest) :
                          rest \in {Drop(s, TokenLen(s))}} : TRUE

(* request.split()[1]; IndexError when there are fewer than two tokens *)
get_path(request_) ==
    LET tokens == Split(request_)
    IN  IF Len(tokens) < 2 THEN [t |-> "IndexError"] ELSE PyStr(tokens[2])

-----------------------------------------------------------------------------
(* get_mimetype *)

ExtHtml == <<".", "h", "t", "m", "l">>
ExtPng == <<".", "p", "n", "g">>
ExtTxt == <<".", "t", "x", "t">>

(* The part of p after its last "/" *)
RECURSIVE BaseName(_)
BaseName(p) ==
    IF \E i \in 1..Len(p) : p[i] = "/"
    THEN CHOOSE r \in {BaseName(rest) : rest \in {Tail(p)}} : TRUE
    ELSE p

(* posixpath.splitext(p)[1]: from the last "." of the base name, unless *)
(* only dots come before it                                              *)
SplitExt(p) ==
    LET b == BaseName(p)
        dots == {i \in 1..Len(b) : b[i] = "."}
    IN  IF dots = {} THEN <<>>
        ELSE LET last == CHOOSE i \in dots : \A j \in dots : j <= i
             IN  IF \A j \in 1..(last - 1) : b[j] = "." THEN <<>>
                 ELSE SubSeq(b, last, Len(b))

(* mimetypes.guess_type(p)[0]: the type of the extension, or None *)
GuessType(p) ==
    LET ext == SplitExt(p)
    IN  IF ext = ExtHtml THEN PyStr(TextHtml)
        ELSE IF ext = ExtPng THEN PyStr(ImagePng)
        ELSE IF ext = ExtTxt THEN PyStr(TextPlain)
        ELSE PyNone

(* '{}'.format(x) *)
Format(x) == IF x.t = "None" THEN NoneLabel ELSE x.v

(* The extension lookup alone, without the rule for a trailing "/" *)
get_mimetype_by_extension(path_) ==
    Utf8Encode(Format(GuessType(path_)))

get_mimetype(path_) ==
    IF EndsWith(path_, "/")
    THEN TextHtml
    ELSE Utf8Encode(Format(GuessType(path_)))

-----------------------------------------------------------------------------
(* The file system the server reads.  A location is the sequence of names   *)
(* leading to it from the working directory.                                *)

NameWebroot == <<"w", "e", "b", "r", "o", "o", "t">>
NameA == <<"a", ".", "h", "t", "m", "l">>
NameD == <<"d">>
NameV == <<"v", ".", "p", "n", "g">>
NameP == <<CharE9>>
NameS == <<"s", ".", "t", "x", "t">>

Cwd == <<>>
LocWebroot == <<NameWebroot>>
LocA == <<NameWebroot, NameA>>
LocD == <<NameWebroot, NameD>>
LocV == <<NameWebroot, NameD, NameV>>
LocP == <<NameWebroot, NameD, NameP>>
LocS == <<NameS>>

Locations == {Cwd, LocWebroot, LocA, LocD, LocV, LocP, LocS}

(* "other": exists, and is neither a directory nor a regular file (a FIFO, *)
(* a socket, a device)                                                     *)
Kinds == {"absent", "file", "dir", "other"}

(* What another process may turn LocV into while the server runs *)
VolatileKinds == {"absent", "file", "dir"}

InitialFs ==
    [l \in Locations |->
        IF l \in {Cwd, LocWebroot, LocD} THEN "dir"
        ELSE IF l = LocP THEN "other"
        ELSE IF l = LocV THEN "absent"
        ELSE "file"]

ContentA == <<"h", "i", "\r", "\n", "\r", "\n", "!">>
ContentV == <<"P", "N", "G">>
ContentS == <<"k", "e", "y">>

(* The bytes of the regular file at a location *)
FileContent(loc) ==
    IF loc = LocA THEN ContentA
    ELSE IF loc = LocV THEN ContentV
    ELSE IF loc = LocS THEN ContentS
    ELSE <<>>

KindAt(f, loc) == IF loc \in DOMAIN f THEN f[loc] ELSE "absent"

(* s.split(c): the pieces of s between occurrences of c *)
RECURSIVE SplitOn(_, _)
SplitOn(s, c) ==
    IF \E i \in 1..Len(s) : s[i] = c
    THEN LET k == CHOOSE i \in 1..Len(s) : s[i] = c /\ \A j \in 1..(i - 1) : s[j] # c
         IN  CHOOSE r \in {<<Take(s, k - 1)>> \o SplitOn(rest, c) :
                              rest \in {Drop(s, k)}} : TRUE
    ELSE <<s>>

Parent(loc) == IF Len(loc) = 0 THEN loc ELSE Take(loc, Len(loc) - 1)

(* The kernel's walk of a relative path name: every component, also an    *)
(* empty one (a doubled or trailing "/"), is looked up in a directory     *)
RECURSIVE Walk(_, _, _)
Walk(f, cur, comps) ==
    IF Len(comps) = 0 THEN [ok |-> TRUE, loc |-> cur]
    ELSE IF KindAt(f, cur) # "dir" THEN [ok |-> FALSE, loc |-> cur]
    ELSE LET c == Head(comps)
             next == IF c = <<>> \/ c = <<".">> THEN cur
                     ELSE IF c = <<".", ".">> THEN Parent(cur)
                     ELSE Append(cur, c)
         IN  CHOOSE w \in {Walk(f, n, rest) :
                              n \in {next}, rest \in {Tail(comps)}} : TRUE

(* The location a path name resolves to *)
Resolve(f, filepath) ==
    CHOOSE w \in {Walk(f, Cwd, comps) : comps \in {SplitOn(filepath, "/")}} : TRUE

(* The kind of what a path name resolves to: os.path.exists is          *)
(* Stat # "absent", os.path.isdir Stat = "dir", os.path.isfile          *)
(* Stat = "file"                                                        *)
Stat(f, filepath) ==
    LET w == Resolve(f, filepath)
    IN  IF w.ok THEN KindAt(f, w.loc) ELSE "absent"

(* The names os.listdir finds in the directory at loc *)
Entries(f, loc) ==
    {l[Len(l)] : l \in {m \in DOMAIN f : /\ Len(m) = Len(loc) + 1
                                         /\ Take(m, Len(loc)) = loc
                                         /\ f[m] # "absent"}}

(* The path kept inside the document root: its ".." segments are dropped *)
FilePath_contained(path_) ==
    WebRoot \o Join(<<"/">>, SelectSeq(SplitOn(path_, "/"),
                                       LAMBDA c : c # <<".", ".">>))

(* filepath = "webroot/" + path_ *)
FilePath(path_) == WebRoot \o path_

(* One line of the listing: "<a href={}>{}<br></a>\n".format(item, item) *)
ListingLine(item) == AnchorOpen \o item \o AnchorMid \o item \o AnchorClose

(* "".join(dirlst).encode("utf8") for the names in the order listdir gave *)
ListingBody(items) ==
    Utf8Encode(Join(<<>>, [i \in 1..Len(items) |-> ListingLine(items[i])]))

-----------------------------------------------------------------------------
(* The byte streams a client may send before it stops sending *)

ReqFile ==
    <<"G", "E", "T", " ", "/", "a", ".", "h", "t", "m", "l", " ", "H",
      "\r", "\n", "\r", "\n">>
ReqDirSlash ==
    <<"G", "E", "T", " ", "/", "d", "/", " ", "H", "\r", "\n", "\r", "\n">>
ReqDirNoSlash ==
    <<"G", "E", "T", " ", "/", "d", " ", "H", "\r", "\n", "\r", "\n">>
ReqVolatile ==
    <<"G", "E", "T", " ", "/", "d", "/", "v", ".", "p", "n", "g", " ", "H",
      "\r", "\n", "\r", "\n">>
ReqSpecial ==
    <<"G", "E", "T", " ", "/", "d", "/", ByteC3, ByteA9, " ", "H",
      "\r", "\n", "\r", "\n">>
ReqNonAscii ==
    <<"G", "E", "T", " ", "/", ByteC3, ByteA9, " ", "H", "\r", "\n", "\r", "\n">>
ReqOneTokenLine ==
    <<"G", "E", "T", "\r", "\n", "H", ":", " ", "x", "\r", "\n", "\r", "\n">>
ReqOneToken == <<"G", "E", "T", "\r", "\n", "\r", "\n">>
ReqTraversal ==
    <<"G", "E", "T", " ", "/", ".", ".", "/", "s", ".", "t", "x", "t", " ", "H",
      "\r", "\n", "\r", "\n">>
ReqNoTerminator == <<"G", "E", "T", " ", "/", " ", "H", "\r", "\n">>

Streams ==
    {ReqFile, ReqDirSlash, ReqDirNoSlash, ReqVolatile, ReqSpecial,
     ReqNonAscii, ReqOneTokenLine, ReqOneToken, ReqTraversal, ReqNoTerminator}

-----------------------------------------------------------------------------
(* serve() *)

(* No helper is called on its own while serve() runs *)
NoCall == [fn |-> "none"]

(* The steps inside the inner try block, lines 161-191 *)
TryBody ==
    {"recv", "get_path", "exists", "isdir", "listdir", "isfile", "open",
     "respond", "sendall"}

(* The steps inside get_content after its os.path.exists *)
Resolving == {"isdir", "listdir", "isfile", "open"}

Init ==
    /\ pc = "accept"
    /\ sockOpen = TRUE
    /\ conns = <<>>
    /\ inflight = <<>>
    /\ received = <<>>
    /\ emptyReads = 0
    /\ request = <<>>
    /\ path = Unbound
    /\ body = Unbound
    /\ mimetype = Unbound
    /\ response = Unbound
    /\ exc = "none"
    /\ outerExc = "none"
    /\ failedBefore = FALSE
    /\ sent = <<>>
    /\ fs = InitialFs
    /\ fsSeen = InitialFs
    /\ fsStable = TRUE
    /\ call = NoCall
    /\ result = Unbound

(* An exception raised inside the inner try block: the bare except at line *)
(* 192 catches it, whatever it is                                           *)
Raise(e) ==
    /\ exc' = e
    /\ pc' = "except"

(* The not-found response with the content type inferred from the path *)
NotFound_inferred_type ==
    /\ body' = PyBytes(NotFoundBody)
    /\ mimetype' = PyBytes(get_mimetype(path.v))
    /\ response' = make_response(Code404, ReasonNotFound,
                                 PyBytes(NotFoundBody),
                                 PyBytes(get_mimetype(path.v)))
    /\ pc' = "sendall"
    /\ exc' = exc

(* except FileNotFoundError, lines 183-189, which leaves the handler at *)
(* conn.sendall                                                          *)
NotFound ==
    /\ body' = PyBytes(NotFoundBody)
    /\ mimetype' = PyBytes(TextPlain)
    /\ response' = make_response(Code404, ReasonNotFound,
                                 PyBytes(NotFoundBody), PyBytes(TextPlain))
    /\ pc' = "sendall"
    /\ exc' = exc

(* How much of a response of n bytes an interrupted or failing sendall has *)
(* written: any part of it; the model follows the parts that end within   *)
(* MaxPartialSend bytes of either end                                     *)
PartialSends(n) ==
    {k \in 0..n : k <= MaxPartialSend \/ k >= n - MaxPartialSend}

(* serve() returns: its frame, with the locals and the last connection's *)
(* buffers, is gone                                                       *)
Return ==
    /\ pc' = "returned"
    /\ inflight' = <<>>
    /\ received' = <<>>
    /\ emptyReads' = 0
    /\ sent' = <<>>
    /\ request' = <<>>
    /\ path' = Unbound
    /\ body' = Unbound
    /\ mimetype' = Unbound
    /\ response' = Unbound
    /\ exc' = "none"

(* The request accumulator set up once, outside the loop: a connection *)
(* starts with what the one before it read                             *)
Accept_keeps_request ==
    /\ pc = "accept"
    /\ Len(conns) < MaxConns
    /\ \E stream \in Streams : inflight' = stream
    /\ received' = <<>>
    /\ conns' = Append(conns, "open")
    /\ request' = request
    /\ emptyReads' = 0
    /\ sent' = <<>>
    /\ exc' = "none"
    /\ pc' = "recv"
    /\ fsSeen' = fs
    /\ fsStable' = TRUE
    /\ UNCHANGED <<sockOpen, path, body, mimetype, response, outerExc,
                   failedBefore, fs, call, result>>

(* sock.accept() returns a connection; request = '' *)
Accept ==
    /\ pc = "accept"
    /\ Len(conns) < MaxConns
    /\ \E stream \in Streams : inflight' = stream
    /\ received' = <<>>
    /\ conns' = Append(conns, "open")
    /\ request' = <<>>
    /\ emptyReads' = 0
    /\ sent' = <<>>
    /\ exc' = "none"
    /\ pc' = "recv"
    /\ fsSeen' = fs
    /\ fsStable' = TRUE
    /\ UNCHANGED <<sockOpen, path, body, mimetype, response, outerExc,
                   failedBefore, fs, call, result>>

(* sock.accept() raises: the outer bare except logs it and serve() ends *)
AcceptFail ==
    /\ pc = "accept"
    /\ outerExc' = "accept:OSError"
    /\ Return
    /\ UNCHANGED <<sockOpen, conns, failedBefore, fs, fsSeen, fsStable, call,
                   result>>

(* KeyboardInterrupt while blocked in sock.accept(): lines 197-199 *)
InterruptInAccept ==
    /\ pc = "accept"
    /\ outerExc' = "KeyboardInterrupt"
    /\ sockOpen' = FALSE
    /\ Return
    /\ UNCHANGED <<conns, failedBefore, fs, fsSeen, fsStable, call, result>>

(* One read only: the handler goes on to get_path whether or not the *)
(* terminator has arrived                                             *)
Recv_one_read ==
    /\ pc = "recv"
    /\ Len(inflight) > 0
    /\ \E n \in 1..Min(RecvSize, Len(inflight)) :
          LET d == Utf8Decode(Take(inflight, n))
          IN  /\ inflight' = Drop(inflight, n)
              /\ received' = received \o Take(inflight, n)
              /\ IF d.ok
                 THEN /\ request' = request \o d.text
                      /\ pc' = "get_path"
                      /\ exc' = exc
                 ELSE /\ Raise("UnicodeDecodeError")
                      /\ request' = request
    /\ UNCHANGED <<sockOpen, conns, emptyReads, path, body, mimetype,
                   response, outerExc, failedBefore, sent, fs, fsSeen,
                   fsStable, call, result>>

(* data = conn.recv(1024); request += data.decode('utf8'); the loop ends *)
(* when the terminator is in request                                      *)
Recv ==
    /\ pc = "recv"
    /\ Len(inflight) > 0
    /\ \E n \in 1..Min(RecvSize, Len(inflight)) :
          LET d == Utf8Decode(Take(inflight, n))
          IN  /\ inflight' = Drop(inflight, n)
              /\ received' = received \o Take(inflight, n)
              /\ IF d.ok
                 THEN /\ request' = request \o d.text
                      /\ pc' = IF Contains(request \o d.text, HeaderTerminator)
                               THEN "get_path" ELSE "recv"
                      /\ exc' = exc
                 ELSE /\ Raise("UnicodeDecodeError")
                      /\ request' = request
    /\ UNCHANGED <<sockOpen, conns, emptyReads, path, body, mimetype,
                   response, outerExc, failedBefore, sent, fs, fsSeen,
                   fsStable, call, result>>

(* A read of zero bytes taken as the end of the request *)
RecvEmpty_breaks ==
    /\ pc = "recv"
    /\ Len(inflight) = 0
    /\ emptyReads < MaxEmptyReads
    /\ emptyReads' = emptyReads + 1
    /\ request' = request
    /\ pc' = "get_path"
    /\ UNCHANGED <<sockOpen, conns, inflight, received, path, body, mimetype,
                   response, exc, outerExc, failedBefore, sent, fs, fsSeen,
                   fsStable, call, result>>

(* The peer has shut its side down: recv returns b'' and the loop goes on *)
RecvEmpty ==
    /\ pc = "recv"
    /\ Len(inflight) = 0
    /\ emptyReads < MaxEmptyReads
    /\ emptyReads' = emptyReads + 1
    /\ request' = request \o Utf8Decode(<<>>).text
    /\ pc' = IF Contains(request', HeaderTerminator) THEN "get_path" ELSE "recv"
    /\ UNCHANGED <<sockOpen, conns, inflight, received, path, body, mimetype,
                   response, exc, outerExc, failedBefore, sent, fs, fsSeen,
                   fsStable, call, result>>

(* conn.recv raises (the peer reset the connection) *)
RecvFail ==
    /\ pc = "recv"
    /\ Raise("recv:OSError")
    /\ UNCHANGED <<sockOpen, conns, inflight, received, emptyReads, request,
                   path, body, mimetype, response, outerExc, failedBefore,
                   sent, fs, fsSeen, fsStable, call, result, call, result>>

(* path = self.get_path(request) *)
GetPath ==
    /\ pc = "get_path"
    /\ LET r == get_path(request)
       IN  IF r.t = "str"
           THEN /\ path' = r
                /\ pc' = "exists"
                /\ exc' = exc
           ELSE /\ Raise(r.t)
                /\ path' = path
    /\ UNCHANGED <<sockOpen, conns, inflight, received, emptyReads, request,
                   body, mimetype, response, outerExc, failedBefore, sent,
                   fs, fsSeen, fsStable, call, result>>

(* get_content waits for the path to appear instead of raising *)
Exists_waits ==
    /\ pc = "exists"
    /\ IF Stat(fs, FilePath(path.v)) = "absent"
       THEN UNCHANGED <<pc, body, mimetype, response, exc>>
       ELSE /\ pc' = "isdir"
            /\ UNCHANGED <<body, mimetype, response, exc>>
    /\ UNCHANGED <<sockOpen, conns, inflight, received, emptyReads, request,
                   path, outerExc, failedBefore, sent, fs, fsSeen, fsStable,
                   call, result>>

(* get_content: filepath = "webroot/" + path_; os.path.exists(filepath), *)
(* else raise FileNotFoundError                                           *)
Exists ==
    /\ pc = "exists"
    /\ fsSeen' = fs
    /\ fsStable' = TRUE
    /\ IF Stat(fs, FilePath(path.v)) # "absent"
       THEN /\ pc' = "isdir"
            /\ UNCHANGED <<body, mimetype, response, exc, call, result>>
       ELSE NotFound
    /\ UNCHANGED <<sockOpen, conns, inflight, received, emptyReads, request,
                   path, outerExc, failedBefore, sent, fs, call, result>>

(* get_content: os.path.isdir(filepath) *)
IsDir ==
    /\ pc = "isdir"
    /\ pc' = IF Stat(fs, FilePath(path.v)) = "dir" THEN "listdir" ELSE "isfile"
    /\ UNCHANGED <<sockOpen, conns, inflight, received, emptyReads, request,
                   path, body, mimetype, response, exc, outerExc,
                   failedBefore, sent, fs, fsSeen, fsStable, call, result>>

(* get_content: the listing of os.listdir(filepath), in the order the *)
(* directory read gives                                                *)
ListDir ==
    /\ pc = "listdir"
    /\ LET w == Resolve(fs, FilePath(path.v))
           k == Stat(fs, FilePath(path.v))
       IN  IF k = "dir"
           THEN /\ \E items \in Orderings(Entries(fs, w.loc)) :
                      body' = PyBytes(ListingBody(items))
                /\ pc' = "respond"
                /\ UNCHANGED <<mimetype, response, exc, call, result>>
           ELSE IF k = "absent"
           THEN NotFound
           ELSE /\ Raise("NotADirectoryError")
                /\ UNCHANGED <<body, mimetype, response, call, result>>
    /\ UNCHANGED <<sockOpen, conns, inflight, received, emptyReads, request,
                   path, outerExc, failedBefore, sent, fs, fsSeen, fsStable,
                   call, result>>

(* get_content: os.path.isfile(filepath); when it is false the function *)
(* falls off its end and returns None                                    *)
IsFile ==
    /\ pc = "isfile"
    /\ IF Stat(fs, FilePath(path.v)) = "file"
       THEN /\ pc' = "open"
            /\ body' = body
       ELSE /\ pc' = "respond"
            /\ body' = PyNone
    /\ UNCHANGED <<sockOpen, conns, inflight, received, emptyReads, request,
                   path, mimetype, response, exc, outerExc, failedBefore,
                   sent, fs, fsSeen, fsStable, call, result>>

(* get_content: open(filepath, "rb") and f.read() *)
Open ==
    /\ pc = "open"
    /\ LET w == Resolve(fs, FilePath(path.v))
           k == Stat(fs, FilePath(path.v))
       IN  IF k = "file"
           THEN /\ body' = PyBytes(FileContent(w.loc))
                /\ pc' = "respond"
                /\ UNCHANGED <<mimetype, response, exc, call, result>>
           ELSE IF k = "absent"
           THEN NotFound
           ELSE /\ Raise(IF k = "dir" THEN "IsADirectoryError" ELSE "open:OSError")
                /\ UNCHANGED <<body, mimetype, response, call, result>>
    /\ UNCHANGED <<sockOpen, conns, inflight, received, emptyReads, request,
                   path, outerExc, failedBefore, sent, fs, fsSeen, fsStable,
                   call, result>>

(* open or read fails on a file that is there (no permission, I/O error) *)
OpenFail ==
    /\ pc = "open"
    /\ Stat(fs, FilePath(path.v)) = "file"
    /\ Raise("open:OSError")
    /\ UNCHANGED <<sockOpen, conns, inflight, received, emptyReads, request,
                   path, body, mimetype, response, outerExc, failedBefore,
                   sent, fs, fsSeen, fsStable, call, result, call, result>>

(* The 200 response built with make_response's default mimetype *)
Respond_default_mimetype ==
    /\ pc = "respond"
    /\ mimetype' = PyBytes(get_mimetype(path.v))
    /\ LET r == make_response(Code200, ReasonOK, body, PyBytes(TextPlain))
       IN  IF r.t = "bytes"
           THEN /\ response' = r
                /\ pc' = "sendall"
                /\ exc' = exc
           ELSE /\ Raise(r.t)
                /\ response' = response
    /\ UNCHANGED <<sockOpen, conns, inflight, received, emptyReads, request,
                   path, body, outerExc, failedBefore, sent, fs, fsSeen,
                   fsStable, call, result>>

(* mimetype = self.get_mimetype(path); response = self.make_response(b"200", *)
(* b"OK", body, mimetype)                                                     *)
Respond ==
    /\ pc = "respond"
    /\ mimetype' = PyBytes(get_mimetype(path.v))
    /\ LET r == make_response(Code200, ReasonOK, body, mimetype')
       IN  IF r.t = "bytes"
           THEN /\ response' = r
                /\ pc' = "sendall"
                /\ exc' = exc
           ELSE /\ Raise(r.t)
                /\ response' = response
    /\ UNCHANGED <<sockOpen, conns, inflight, received, emptyReads, request,
                   path, body, outerExc, failedBefore, sent, fs, fsSeen,
                   fsStable, call, result>>

(* conn.sendall(response) writes all of it *)
SendAll ==
    /\ pc = "sendall"
    /\ sent' = response.v
    /\ pc' = "finally"
    /\ UNCHANGED <<sockOpen, conns, inflight, received, emptyReads, request,
                   path, body, mimetype, response, exc, outerExc,
                   failedBefore, fs, fsSeen, fsStable, call, result>>

(* conn.sendall raises after writing some part of the response, or none *)
SendFail ==
    /\ pc = "sendall"
    /\ \E k \in PartialSends(Len(response.v)) \ {Len(response.v)} :
          sent' = Take(response.v, k)
    /\ Raise("send:OSError")
    /\ UNCHANGED <<sockOpen, conns, inflight, received, emptyReads, request,
                   path, body, mimetype, response, outerExc, failedBefore,
                   fs, fsSeen, fsStable, call, result>>

(* KeyboardInterrupt inside the inner try block: a BaseException, which the *)
(* bare except at line 192 catches like any other.  One that interrupts     *)
(* conn.sendall leaves some part of the response written.                   *)
InterruptInTry ==
    /\ pc \in TryBody
    /\ IF pc = "sendall"
       THEN \E k \in PartialSends(Len(response.v)) : sent' = Take(response.v, k)
       ELSE sent' = sent
    /\ Raise("KeyboardInterrupt")
    /\ UNCHANGED <<sockOpen, conns, inflight, received, emptyReads, request,
                   path, body, mimetype, response, outerExc, failedBefore,
                   fs, fsSeen, fsStable, call, result>>

(* The exception handled with no finally clause behind it: the loop goes *)
(* on without conn.close()                                                *)
Except_no_finally ==
    /\ pc = "except"
    /\ failedBefore' = (failedBefore \/ exc # "KeyboardInterrupt")
    /\ pc' = "accept"
    /\ UNCHANGED <<sockOpen, conns, inflight, received, emptyReads, request,
                   path, body, mimetype, response, exc, outerExc, sent, fs,
                   fsSeen, fsStable, call, result>>

(* No except clause at the connection's scope: the finally clause closes *)
(* the connection and the exception reaches the outer handlers            *)
Except_propagates ==
    /\ pc = "except"
    /\ failedBefore' = (failedBefore \/ exc # "KeyboardInterrupt")
    /\ conns' = [conns EXCEPT ![Len(conns)] = "closed"]
    /\ outerExc' = exc
    /\ sockOpen' = (exc # "KeyboardInterrupt")
    /\ Return
    /\ UNCHANGED <<fs, fsSeen, fsStable, call, result>>

(* An except clause that answers the client with a 500 response *)
Except_replies_500 ==
    /\ pc = "except"
    /\ failedBefore' = (failedBefore \/ exc # "KeyboardInterrupt")
    /\ sent' = sent \o <<"H", "T", "T", "P", "/", "1", ".", "1", " ", "5", "0",
                         "0", " ", "E", "R", "R", "O", "R", "\r", "\n">>
    /\ pc' = "finally"
    /\ UNCHANGED <<sockOpen, conns, inflight, received, emptyReads, request,
                   path, body, mimetype, response, exc, outerExc, fs, fsSeen,
                   fsStable, call, result>>

(* except: traceback.print_exc() *)
Except ==
    /\ pc = "except"
    /\ failedBefore' = (failedBefore \/ exc # "KeyboardInterrupt")
    /\ pc' = "finally"
    /\ UNCHANGED <<sockOpen, conns, inflight, received, emptyReads, request,
                   path, body, mimetype, response, exc, outerExc, sent, fs,
                   fsSeen, fsStable, call, result>>

(* KeyboardInterrupt inside the except clause: the finally clause closes the *)
(* connection, then the outer handler closes the socket and returns          *)
InterruptInExcept ==
    /\ pc = "except"
    /\ failedBefore' = (failedBefore \/ exc # "KeyboardInterrupt")
    /\ conns' = [conns EXCEPT ![Len(conns)] = "closed"]
    /\ outerExc' = "KeyboardInterrupt"
    /\ sockOpen' = FALSE
    /\ Return
    /\ UNCHANGED <<fs, fsSeen, fsStable, call, result>>

(* The loop goes back to sock.accept() with the connection left open *)
Finally_no_close ==
    /\ pc = "finally"
    /\ inflight' = <<>>
    /\ received' = <<>>
    /\ emptyReads' = 0
    /\ sent' = <<>>
    /\ pc' = "accept"
    /\ UNCHANGED <<sockOpen, conns, request, path, body, mimetype, response,
                   exc, outerExc, failedBefore, fs, fsSeen, fsStable, call,
                   result>>

(* finally: conn.close(), and the loop goes back to sock.accept() *)
Finally ==
    /\ pc = "finally"
    /\ conns' = [conns EXCEPT ![Len(conns)] = "closed"]
    /\ inflight' = <<>>
    /\ received' = <<>>
    /\ emptyReads' = 0
    /\ sent' = <<>>
    /\ pc' = "accept"
    /\ UNCHANGED <<sockOpen, request, path, body, mimetype, response, exc,
                   outerExc, failedBefore, fs, fsSeen, fsStable, call,
                   result>>

(* Another process creates, removes or replaces webroot/d/v.png.  Only the *)
(* steps of get_content read the file system, so a change at any other     *)
(* moment is the same as one right before os.path.exists.                  *)
FsChange ==
    /\ pc \in {"exists"} \cup Resolving
    /\ \E k \in VolatileKinds \ {fs[LocV]} : fs' = [fs EXCEPT ![LocV] = k]
    /\ fsStable' = IF pc \in Resolving THEN FALSE ELSE fsStable
    /\ UNCHANGED <<pc, sockOpen, conns, inflight, received, emptyReads,
                   request, path, body, mimetype, response, exc, outerExc,
                   failedBefore, sent, fsSeen, call, result>>

Next ==
    \/ Accept
    \/ AcceptFail
    \/ InterruptInAccept
    \/ Recv
    \/ RecvEmpty
    \/ RecvFail
    \/ GetPath
    \/ Exists
    \/ IsDir
    \/ ListDir
    \/ IsFile
    \/ Open
    \/ OpenFail
    \/ Respond
    \/ SendAll
    \/ SendFail
    \/ InterruptInTry
    \/ Except
    \/ InterruptInExcept
    \/ Finally
    \/ FsChange

Spec == Init /\ [][Next]_vars

(* The steps serve() takes by itself once the request is complete: each   *)
(* file-system call, the send and the handlers return or raise            *)
HandlerStep ==
    \/ GetPath
    \/ Exists
    \/ IsDir
    \/ ListDir
    \/ IsFile
    \/ Open
    \/ OpenFail
    \/ Respond
    \/ SendAll
    \/ SendFail
    \/ Except
    \/ Finally

(* serve() as a running process: a step it can take is eventually taken *)
SpecLive == Init /\ [][Next]_vars /\ WF_vars(HandlerStep)

-----------------------------------------------------------------------------
(* The helpers called on their own, on arguments drawn from bounded sets *)

MaxBodyLen == 4

ArgCodes == {Code200, Code404, <<"5", "0", "0">>}
ArgReasons == {ReasonOK, ReasonNotFound, <<>>}
ArgTypes == {TextPlain, TextHtml, NoneLabel}
BodyBytes == {"x", "\r", "\n"}
ArgBodies == UNION {[1..k -> BodyBytes] : k \in 0..MaxBodyLen}

(* Request paths with the label get_mimetype is to give each: the four of *)
(* section 8 of the specification, and paths of the file system above     *)
MimetypeExamples ==
    { <<<<"/">>, TextHtml>>,
      <<<<"/", "p", "a", "g", "e", ".", "h", "t", "m", "l">>, TextHtml>>,
      <<<<"/", "i", "m", "g", ".", "p", "n", "g">>, ImagePng>>,
      <<<<"/", "n", "o", "_", "e", "x", "t", "e", "n", "s", "i", "o", "n">>, NoneLabel>>,
      <<<<"/", "a", ".", "h", "t", "m", "l">>, TextHtml>>,
      <<<<"/", "a", ".", "h", "t", "m", "l", "/">>, TextHtml>>,
      <<<<"/", "d">>, NoneLabel>>,
      <<<<"/", "d", "/">>, TextHtml>>,
      <<<<"/", "d", "/", "v", ".", "p", "n", "g">>, ImagePng>>,
      <<<<"/", "d", "/", "v", ".", "p", "n", "g", "/">>, TextHtml>>,
      <<<<"/", "d", "/", CharE9>>, NoneLabel>>,
      <<<<"/", ".", "p", "n", "g">>, NoneLabel>>,
      <<<<"/", "x", ".", "t", "x", "t">>, TextPlain>>,
      <<<<"/", "a", ".", "b", "/", "c">>, NoneLabel>>,
      <<<<"/", ".", ".", "/", "s", ".", "t", "x", "t">>, TextPlain>>,
      <<<<"/", "m", ".", "p", "n", "g">>, ImagePng>> }

GetMimetypeCalls ==
    {[fn |-> "get_mimetype", path |-> e[1]] : e \in MimetypeExamples}

MakeResponseCalls ==
    {[fn |-> "make_response", code |-> c, reason |-> r, body |-> b, mimetype |-> m] :
        c \in ArgCodes, r \in ArgReasons, b \in ArgBodies, m \in ArgTypes}

InitCall ==
    /\ pc = "call"
    /\ call \in MakeResponseCalls \cup GetMimetypeCalls
    /\ result = Unbound
    /\ sockOpen = FALSE
    /\ conns = <<>>
    /\ inflight = <<>>
    /\ received = <<>>
    /\ emptyReads = 0
    /\ request = <<>>
    /\ path = Unbound
    /\ body = Unbound
    /\ mimetype = Unbound
    /\ response = Unbound
    /\ exc = "none"
    /\ outerExc = "none"
    /\ failedBefore = FALSE
    /\ sent = <<>>
    /\ fs \in {[InitialFs EXCEPT ![LocV] = k] : k \in VolatileKinds}
    /\ call.fn = "make_response" => fs = InitialFs
    /\ fsSeen = fs
    /\ fsStable = TRUE

(* HttpServer.make_response(code, reason, body, mimetype) *)
CallMakeResponse ==
    /\ pc = "call"
    /\ call.fn = "make_response"
    /\ result' = make_response(call.code, call.reason, PyBytes(call.body),
                               PyBytes(call.mimetype))
    /\ pc' = "called"
    /\ UNCHANGED <<sockOpen, conns, inflight, received, emptyReads, request,
                   path, body, mimetype, response, exc, outerExc,
                   failedBefore, sent, fs, fsSeen, fsStable, call>>

(* HttpServer.get_mimetype(path_) *)
CallGetMimetype ==
    /\ pc = "call"
    /\ call.fn = "get_mimetype"
    /\ result' = PyBytes(get_mimetype(call.path))
    /\ pc' = "called"
    /\ UNCHANGED <<sockOpen, conns, inflight, received, emptyReads, request,
                   path, body, mimetype, response, exc, outerExc,
                   failedBefore, sent, fs, fsSeen, fsStable, call>>

NextCall ==
    \/ CallMakeResponse
    \/ CallGetMimetype

SpecCall == InitCall /\ [][NextCall]_vars

-----------------------------------------------------------------------------
(* What the claims speak of *)

StatusLineOK ==
    <<"H", "T", "T", "P", "/", "1", ".", "1", " ", "2", "0", "0", " ", "O",
      "K", "\r", "\n">>
StatusLineNotFound ==
    <<"H", "T", "T", "P", "/", "1", ".", "1", " ", "4", "0", "4", " ", "N",
      "O", "T", " ", "F", "O", "U", "N", "D", "\r", "\n">>
ContentTypeTextHtmlLine ==
    <<"C", "o", "n", "t", "e", "n", "t", "-", "T", "y", "p", "e", ":", " ",
      "t", "e", "x", "t", "/", "h", "t", "m", "l", "\r", "\n">>
NotFoundResponse ==
    <<"H", "T", "T", "P", "/", "1", ".", "1", " ", "4", "0", "4", " ", "N",
      "O", "T", " ", "F", "O", "U", "N", "D", "\r", "\n", "C", "o", "n",
      "t", "e", "n", "t", "-", "T", "y", "p", "e", ":", " ", "t", "e", "x",
      "t", "/", "p", "l", "a", "i", "n", "\r", "\n", "\r", "\n", "C", "o",
      "u", "l", "d", "n", "'", "t", " ", "f", "i", "n", "d", " ", "t", "h",
      "e", " ", "f", "i", "l", "e", " ", "y", "o", "u", " ", "r", "e", "q",
      "u", "e", "s", "t", "e", "d", ".">>

(* Faults of the environment, which no request decides: an interrupt, and *)
(* an I/O error of recv, open/read or sendall                             *)
EnvFaults == {"KeyboardInterrupt", "recv:OSError", "open:OSError", "send:OSError"}

(* The handler has run to its finally clause on a request that holds the  *)
(* header terminator and a path, and no fault of the environment hit it   *)
Handled ==
    /\ pc = "finally"
    /\ Contains(request, HeaderTerminator)
    /\ get_path(request).t = "str"
    /\ exc \notin EnvFaults

(* The path of the current request and what it named, under the document *)
(* root, when get_content looked                                          *)
ReqPath == get_path(request).v
ReqKind == Stat(fsSeen, FilePath(ReqPath))
ReqLoc == Resolve(fsSeen, FilePath(ReqPath)).loc

(* C1: a request whose path, appended to "webroot/", names a regular file  *)
(* (and keeps naming it while get_content runs) is answered with exactly   *)
(* the status line 200 OK, the Content-Type line of get_mimetype(path), a  *)
(* blank line and the file's bytes.                                        *)
C1_FileServed ==
    (Handled /\ ReqKind = "file" /\ fsStable)
        => sent = StatusLineOK \o ContentTypeHeader \o get_mimetype(ReqPath)
                  \o CRLF \o CRLF \o FileContent(ReqLoc)

C1_Witness ==
    /\ Handled /\ ReqKind = "file" /\ fsStable
    /\ ReqLoc = LocA
    /\ Len(sent) > Len(StatusLineOK)

(* C2: a request whose path names a directory, with or without a trailing *)
(* "/", is answered with 200 OK, Content-Type text/html and a body of one *)
(* listing line per entry of the directory and nothing else.              *)
C2_DirectoryListed ==
    (Handled /\ ReqKind = "dir" /\ fsStable)
        => \E items \in Orderings(Entries(fsSeen, ReqLoc)) :
              sent = StatusLineOK \o ContentTypeTextHtmlLine \o CRLF
                     \o ListingBody(items)

(* C3: a request whose path names nothing under the document root is      *)
(* answered with exactly the fixed 404 response, whatever the extension   *)
(* of the path, and the handler ends without an exception having reached  *)
(* its bare except.                                                       *)
C3_NotFound ==
    (Handled /\ ReqKind = "absent")
        => /\ sent = NotFoundResponse
           /\ exc = "none"

C3_Witness ==
    /\ Handled /\ ReqKind = "absent"
    /\ SplitExt(ReqPath) = ExtPng
    /\ sent = NotFoundResponse

(* C4: once control has left the connection handler (serve() is back at   *)
(* sock.accept() or has returned), every accepted connection is closed,   *)
(* whichever step the handler finished or aborted in.                     *)
C4_ClosedOnExit ==
    pc \in {"accept", "returned"}
        => \A i \in 1..Len(conns) : conns[i] = "closed"

C4_Witness ==
    /\ pc = "accept"
    /\ Len(conns) >= 1
    /\ exc = "TypeError"
    /\ conns[Len(conns)] = "closed"

(* C5: a failure raised while a connection is handled never ends the      *)
(* server loop: serve() returns only on an interrupt or a failure of      *)
(* sock.accept(); after any other exception the handler is in its except  *)
(* or finally clause or serve() is back at sock.accept(), the listening   *)
(* socket open and the failed connection closed.                          *)
C5_FailureIsolated ==
    /\ pc = "returned" => outerExc \in {"KeyboardInterrupt", "accept:OSError"}
    /\ exc \notin {"none", "KeyboardInterrupt"}
          => /\ pc \in {"except", "finally", "accept"}
             /\ sockOpen
             /\ pc = "accept" => conns[Len(conns)] = "closed"

(* A connection is served in full after an earlier one has failed *)
C5_Witness ==
    /\ failedBefore
    /\ Len(conns) >= 2
    /\ pc = "finally"
    /\ exc = "none"
    /\ IsPrefix(StatusLineOK, sent)

(* C6: at most one accepted connection is open, and it is the one accepted *)
(* last: every connection before it was closed before the next accept.     *)
C6_OneAtATime ==
    /\ \A i \in 1..(Len(conns) - 1) : conns[i] = "closed"
    /\ Cardinality({i \in 1..Len(conns) : conns[i] = "open"}) <= 1

C6_Witness ==
    /\ Len(conns) = 2
    /\ conns[1] = "closed"
    /\ conns[2] = "open"
    /\ pc = "sendall"

(* C7: once a KeyboardInterrupt has been delivered to serve(), in accept   *)
(* or in the middle of a connection, serve() does not go back to waiting   *)
(* in sock.accept().                                                       *)
C7_InterruptStops ==
    exc = "KeyboardInterrupt" => pc # "accept"

(* The first line of a request: what comes before its first line break *)
RECURSIVE FirstLine(_)
FirstLine(s) ==
    IF Len(s) = 0 \/ s[1] \in {"\r", "\n"} THEN <<>>
    ELSE <<s[1]>> \o FirstLine(Tail(s))

(* C8: when the first line of the received request has fewer than two     *)
(* whitespace-separated tokens, no byte is sent on the connection.        *)
C8_NoReplyWithoutPath ==
    (/\ pc = "finally"
     /\ Contains(request, HeaderTerminator)
     /\ Len(Split(FirstLine(request))) < 2)
        => sent = <<>>

(* C9: whatever is written on a connection is (the beginning of) a        *)
(* response with status line 200 OK or 404 NOT FOUND; a handler that ends *)
(* without an exception has written such a response in full, and one that *)
(* ends in an exception raised before conn.sendall has written nothing.   *)
C9_OnlyOkOrNotFound ==
    /\ \/ IsPrefix(sent, StatusLineOK)
       \/ IsPrefix(StatusLineOK, sent)
       \/ IsPrefix(sent, StatusLineNotFound)
       \/ IsPrefix(StatusLineNotFound, sent)
    /\ (pc = "finally" /\ exc = "none")
          => /\ sent = response.v
             /\ \/ IsPrefix(StatusLineOK, sent)
                \/ IsPrefix(StatusLineNotFound, sent)
    /\ (pc = "finally" /\ exc \notin {"none", "send:OSError", "KeyboardInterrupt"})
          => sent = <<>>

(* A request for a special file ends in TypeError and a silent close *)
C9_Witness ==
    /\ pc = "finally"
    /\ exc = "TypeError"
    /\ Len(conns) = 2
    /\ sent = <<>>

IndexOf(s, sub) ==
    LET hits == {i \in 1..(Len(s) - Len(sub) + 1) :
                    SubSeq(s, i, i + Len(sub) - 1) = sub}
    IN  IF hits = {} THEN 0 ELSE CHOOSE i \in hits : \A j \in hits : i <= j

(* A client's reading of a response: the code and the reason from the     *)
(* first line, the type from the Content-Type line, the body as all that  *)
(* follows the first blank line                                           *)
ParseResponse(r) ==
    LET eol1 == IndexOf(r, <<"\r", "\n">>)
        line1 == Take(r, eol1 - 1)
        status == Drop(line1, Len(HttpVersion))
        sp == IndexOf(status, <<" ">>)
        blank == IndexOf(r, <<"\r", "\n", "\r", "\n">>)
        line2 == SubSeq(r, eol1 + 2, blank - 1)
    IN  IF eol1 = 0 \/ blank = 0 \/ sp = 0
           \/ ~IsPrefix(HttpVersion, line1) \/ ~IsPrefix(ContentTypeHeader, line2)
        THEN [ok |-> FALSE]
        ELSE [ok |-> TRUE,
              code |-> Take(status, sp - 1),
              reason |-> Drop(status, sp),
              mimetype |-> Drop(line2, Len(ContentTypeHeader)),
              body |-> Drop(r, blank + 3)]

(* C11: parsing what make_response built gives back the same code,        *)
(* reason, content-type label and body, also for a body that holds CRLF   *)
(* or CRLF CRLF.                                                          *)
C11_RoundTrip ==
    (pc = "called" /\ call.fn = "make_response")
        => /\ result.t = "bytes"
           /\ ParseResponse(result.v) =
                 [ok |-> TRUE, code |-> call.code, reason |-> call.reason,
                  mimetype |-> call.mimetype, body |-> call.body]

C11_Witness ==
    /\ pc = "called"
    /\ call.fn = "make_response"
    /\ call.body = <<"\r", "\n", "\r", "\n">>
    /\ call.reason = ReasonNotFound
    /\ ParseResponse(result.v).ok
    /\ ParseResponse(result.v).body = call.body

(* C12: get_mimetype returns a label for every path and never fails; a   *)
(* path ending in "/" gives text/html whatever else it holds, any other   *)
(* path the label of its extension or "None"; the label is the same       *)
(* whether or not the path names something under the document root.       *)
C12_MimetypeOfPath ==
    (pc = "called" /\ call.fn = "get_mimetype")
        => /\ result.t = "bytes"
           /\ \A e \in MimetypeExamples : call.path = e[1] => result.v = e[2]
           /\ call.path[Len(call.path)] = "/" => result.v = TextHtml
           /\ result.v \in {TextHtml, TextPlain, ImagePng, NoneLabel}

(* A path that names nothing gets the label of its extension *)
C12_Witness ==
    /\ pc = "called"
    /\ call.fn = "get_mimetype"
    /\ Stat(fs, FilePath(call.path)) = "absent"
    /\ result.v = ImagePng


-----------------------------------------------------------------------------
(* The stage of the current connection, read off the handler's position:  *)
(* 1 AWAITING_HEADERS, 2 PATH_EXTRACTED, 3 CONTENT_RESOLVED (the body, or  *)
(* the not-found body, is known), 4 RESPONSE_SENT, 5 closed or on the way  *)
(* to conn.close() after a failure                                         *)
Stage ==
    CASE pc \in {"recv", "get_path"} -> 1
      [] pc \in {"exists"} \cup Resolving -> 2
      [] pc \in {"respond", "sendall"} -> 3
      [] pc = "finally" /\ exc = "none" -> 4
      [] OTHER -> 5

ConnOpen == Len(conns) > 0 /\ conns[Len(conns)] = "open"

(* C13: a connection only moves forward through its stages; bytes are     *)
(* written to it by one step only, the send of the response, which        *)
(* happens when the request holds the header terminator, the path has     *)
(* been extracted from it and resolved, and the connection is open; no    *)
(* step writes to a connection that has already been written to or closed *)
C13_ForwardOnly ==
    [][/\ Len(conns') = Len(conns) => Stage' >= Stage
       /\ (sent' # sent /\ sent' # <<>>)
              => /\ pc = "sendall"
                 /\ sent = <<>>
                 /\ ConnOpen
                 /\ Contains(request, HeaderTerminator)
                 /\ path = get_path(request)
                 /\ body.t = "bytes"
                 /\ IsPrefix(sent', response.v)
       /\ Stage' = 4 => Stage = 3 /\ sent' = response.v
       /\ ~ConnOpen => sent = <<>> /\ (Len(conns') = Len(conns) => sent' = <<>>)
      ]_vars

(* The second connection of a run has been sent its response *)
C13_Witness ==
    /\ Len(conns) = 2
    /\ pc = "finally"
    /\ exc = "none"
    /\ sent = response.v
    /\ Len(sent) > 0


(* C14: a step taken while the handler reads the request leaves it        *)
(* reading, with the connection open and no further connection accepted,  *)
(* unless the step completes the header terminator or is a failure; a     *)
(* read of zero bytes adds nothing to the request and is such a step      *)
C14_StaysAwaitingHeaders ==
    [][(pc = "recv" /\ pc' # "except" /\ ~Contains(request', HeaderTerminator))
          => /\ pc' = "recv"
             /\ conns' = conns
             /\ ConnOpen
             /\ sockOpen' = sockOpen
             /\ sent' = <<>>
             /\ emptyReads' > emptyReads => request' = request
      ]_vars

(* The peer has closed its side, every read so far has returned zero bytes *)
(* at the end, and the handler is still reading                            *)
C14_Witness ==
    /\ pc = "recv"
    /\ ConnOpen
    /\ emptyReads = MaxEmptyReads
    /\ Len(inflight) = 0
    /\ Len(request) > 0
    /\ ~Contains(request, HeaderTerminator)


(* C15: once the request of the current connection holds the header       *)
(* terminator, the connection is eventually closed and serve() is         *)
(* eventually back at sock.accept(), whatever the request and the file    *)
(* system hold, unless an interrupt has ended serve() after closing the   *)
(* connection                                                             *)
C15_EventuallyClosed ==
    (pc = "get_path")
        ~> (/\ ~ConnOpen
            /\ pc = "accept" \/ (pc = "returned" /\ outerExc = "KeyboardInterrupt"))

(* A request whose handling failed: its connection is closed and serve()  *)
(* is at sock.accept() again                                              *)
C15_Witness ==
    /\ pc = "accept"
    /\ Len(conns) = 2
    /\ conns[2] = "closed"
    /\ Contains(request, HeaderTerminator)
    /\ exc = "TypeError"


(* C16: get_content ends in one of three ways only: it returns the bytes  *)
(* of a file, it returns a listing, or it raises FileNotFoundError; what  *)
(* it hands to the response is always bytes, and it raises nothing else   *)
(* for a path that a file-system call has found                          *)
C16_ThreeOutcomes ==
    /\ pc = "respond" => body.t = "bytes"
    /\ exc \notin {"NotADirectoryError", "IsADirectoryError"}

(* C17: the path get_path returns is the second token of the first line   *)
(* of the request, as it stands there                                     *)
C17_SecondTokenOfFirstLine ==
    (pc = "exists")
        => /\ path.t = "str"
           /\ Len(Split(FirstLine(request))) >= 2
           /\ path.v = Split(FirstLine(request))[2]


(* C18: what a request is answered with is what the string "webroot/"     *)
(* followed by its path, unchanged, names: a file there is served with    *)
(* 200 and its bytes, also when ".." segments lead outside webroot, and   *)
(* only a name that leads nowhere is answered with 404                    *)
C18_ResolvedAsGiven ==
    (Handled /\ fsStable)
        => LET filepath == WebRoot \o ReqPath
               w == Resolve(fsSeen, filepath)
           IN  /\ Stat(fsSeen, filepath) = "file"
                     => sent = StatusLineOK \o ContentTypeHeader
                               \o get_mimetype(ReqPath) \o CRLF \o CRLF
                               \o FileContent(w.loc)
               /\ Stat(fsSeen, filepath) = "absent" <=> sent = NotFoundResponse

(* A request for /../s.txt has been answered with the file next to webroot *)
C18_Witness ==
    /\ Handled /\ fsStable
    /\ Contains(ReqPath, <<".", ".">>)
    /\ Resolve(fsSeen, WebRoot \o ReqPath).loc = LocS
    /\ IsPrefix(StatusLineOK, sent)
    /\ EndsWith(sent, ContentS[Len(ContentS)])
    /\ Contains(sent, ContentS)


(* The responses the code may give to the request req in the file system  *)
(* f: one for a file or a missing name, one per order of the entries for  *)
(* a directory                                                            *)
Answers(req, f) ==
    LET p == get_path(req).v
        filepath == WebRoot \o p
        k == Stat(f, filepath)
        ok == StatusLineOK \o ContentTypeHeader \o get_mimetype(p) \o CRLF \o CRLF
    IN  IF k = "absent" THEN {NotFoundResponse}
        ELSE IF k = "file" THEN {ok \o FileContent(Resolve(f, filepath).loc)}
        ELSE IF k = "dir"
        THEN {ok \o ListingBody(items) :
                 items \in Orderings(Entries(f, Resolve(f, filepath).loc))}
        ELSE {}

(* C19: while a connection is handled, the request accumulator holds the  *)
(* decoded bytes read from that connection and nothing else, and whatever *)
(* is written to the connection is (the beginning of) the response that   *)
(* its own request and the file system call for, whatever an earlier      *)
(* connection left behind                                                 *)
C19_NoLeak ==
    /\ pc \in TryBody => request = Utf8Decode(received).text
    /\ (pc = "sendall" /\ fsStable) => response.v \in Answers(request, fsSeen)
    /\ (Len(sent) > 0 /\ fsStable)
          => \E a \in Answers(request, fsSeen) : IsPrefix(sent, a)

(* The connection after one that failed has been answered *)
C19_Witness ==
    /\ failedBefore
    /\ Len(conns) = 2
    /\ conns[1] = "closed"
    /\ pc = "finally"
    /\ exc = "none"
    /\ sent = response.v
    /\ sent \in Answers(request, fsSeen)


(* The bytes the client has sent on the current connection, read or not *)
Stream == received \o inflight

(* C20: a connection whose stream is well-formed UTF-8 text holding the   *)
(* header terminator ends as it does when the stream arrives in a single  *)
(* read, however it was split into reads: the response that the whole     *)
(* text calls for has been sent, or nothing when it calls for none        *)
C20_SplitIndependent ==
    (/\ pc = "finally"
     /\ exc \notin EnvFaults
     /\ fsStable
     /\ Utf8Decode(Stream).ok
     /\ Contains(Utf8Decode(Stream).text, HeaderTerminator))
        => LET whole == Utf8Decode(Stream).text
           IN  IF get_path(whole).t = "str" /\ Answers(whole, fsSeen) # {}
               THEN sent \in Answers(whole, fsSeen)
               ELSE sent = <<>>

====
